---------------------------- MODULE Spec2Model ----------------------------
(***************************************************************************)
(* Model of src/src/library/index.ts (http2-auto-window-size):            *)
(* setupAutoWindowSize and setupSessionPing attached to one Http2Session. *)
(*                                                                         *)
(* Every handler of the program is one action: the bandwidth interval     *)
(* callback (Tick), the wrapped stream.push (StreamPush), the ping        *)
(* interval callback (PingTimerFire), the session.ping completion         *)
(* callback (PingSuccess / PingError) and the two 'close' listeners       *)
(* (SessionClose).  The session itself is the environment: it destroys    *)
(* itself (SessionDestroy), makes its flow-control state available        *)
(* (SessionStateReady), and answers pings.                                 *)
(*                                                                         *)
(* Numbers: the program computes in IEEE doubles.  The model computes the *)
(* same expressions in exact rational arithmetic (CeilDiv).  The inputs   *)
(* enumerated below are chosen so that both agree: every quotient         *)
(* received / duration, and every product formed from it, is exactly      *)
(* representable in a double (the only positive duration is 256 ms).      *)
(***************************************************************************)
EXTENDS Integers, Sequences, FiniteSets, TLC

\* ----------------------------------------------------------------------
\* Program constants (index.ts:4-14)
\* ----------------------------------------------------------------------
MIN_WINDOW_SIZE_DEFAULT == 65536

WINDOW_SIZE_FACTOR_DEFAULT == 2

WINDOW_SIZE_REDUCING_RTT_THRESHOLD_FACTOR_DEFAULT == 5

INITIAL_PING_DURATION_REFERENCE_DEFAULT == 100

PING_INTERVAL_FACTOR_DEFAULT == 50

\* `undefined` of `number | undefined` (recentRTT, minRTT, timer handle,
\* session.state.effectiveLocalWindowSize, options.initialWindowSize).
\* All numbers of the program that the model enumerates are >= 0.
undefined == -1

\* ----------------------------------------------------------------------
\* Bounds of the model
\* ----------------------------------------------------------------------
\* At most this many pings are outstanding at once.
MaxInFlight == 2

\* Cap on receivedSinceLastBandwidthCalculation (bytes) between two ticks.
MaxReceived == 1000000

\* ----------------------------------------------------------------------
\* Inputs
\* ----------------------------------------------------------------------
\* Byte lengths of the Buffers handed to stream.push.
ChunkLengths == {500000}

\* Values Date.now() returns (ms).  The wall clock is not monotonic, so a
\* tick may read any of them whatever the previous tick read.
Times == {1000, 1256}

\* Durations session.ping reports (ms).
PingDurations == {50, 60, 300}

\* session.state.effectiveLocalWindowSize of a live session on which
\* setLocalWindowSize was never called (the HTTP/2 default window).
SessionDefaultWindowSize == 65535

\* options.minWindowSize
MinWindowSizes == {MIN_WINDOW_SIZE_DEFAULT, 2 * MIN_WINDOW_SIZE_DEFAULT}

\* options.initialWindowSize
InitialWindowSizes == {undefined, MIN_WINDOW_SIZE_DEFAULT}

\* options.pingIntervalFactor
PingIntervalFactors == {1, PING_INTERVAL_FACTOR_DEFAULT}

\* The options objects setupAutoWindowSize is called with, defaults applied
\* (index.ts:65-75).
Options ==
    [ minWindowSize : MinWindowSizes,
      initialWindowSize : InitialWindowSizes,
      windowSizeFactor : {WINDOW_SIZE_FACTOR_DEFAULT},
      windowSizeReducingRTTThresholdFactor :
          {WINDOW_SIZE_REDUCING_RTT_THRESHOLD_FACTOR_DEFAULT},
      initialPingDurationReference : {INITIAL_PING_DURATION_REFERENCE_DEFAULT},
      pingIntervalFactor : PingIntervalFactors ]

\* ----------------------------------------------------------------------
\* State
\* ----------------------------------------------------------------------
VARIABLES
    options,      \* the destructured options of this setupAutoWindowSize call
    effectiveLocalWindowSize, \* session.state.effectiveLocalWindowSize
    destroyed,    \* session.destroyed
    closed,       \* the session's 'close' event has been emitted
    recentRTT,    \* index.ts:82
    minRTT,       \* index.ts:83
    receivedSinceLastBandwidthCalculation,  \* index.ts:97
    bandwidthCalculatedAt,                  \* index.ts:98
    timer,        \* index.ts:100, TRUE while the bandwidth interval is armed
    pingTimer,    \* index.ts:163, the armed interval's period or undefined
    pingIntervals,\* the periods of the intervals setupSessionPing armed
                  \* with setInterval and has not cleared
    inFlight,     \* session.ping calls whose callback has not fired yet:
                  \* per ping, a lower bound on the time it has been out
    lastOp,       \* history: the handler that ran last and its input
    calls,        \* history: the calls that handler made, in order
    samples,      \* history: durations of all successful pings so far
    delivered     \* history: lengths of the Buffers pushed since the last
                  \* tick read the byte count

vars == << options, effectiveLocalWindowSize, destroyed, closed, recentRTT,
           minRTT, receivedSinceLastBandwidthCalculation,
           bandwidthCalculatedAt, timer, pingTimer, pingIntervals, inFlight,
           lastOp, calls, samples, delivered >>

\* ----------------------------------------------------------------------
\* Helpers
\* ----------------------------------------------------------------------
Max(a, b) == IF a >= b THEN a ELSE b

Min(a, b) == IF a <= b THEN a ELSE b

\* Math.ceil(n / d) for d > 0.
CeilDiv(n, d) == -((-n) \div d)

SetMin(S) == CHOOSE x \in S : \A y \in S : x <= y

Call(fn, arg) == [fn |-> fn, arg |-> arg]

\* A history record: the handler and its input.  For a tick the input is the
\* local `received`, and the record also keeps the local `duration` and the
\* window size the session reported before the tick.
Op(op, input) ==
    [op |-> op, input |-> input, duration |-> 0, window |-> undefined]

TickOp(received, duration, window) ==
    [op |-> "tick", input |-> received, duration |-> duration,
     window |-> window]

Fns(cs) == {cs[i].fn : i \in 1..Len(cs)}

Remove(s, i) == SubSeq(s, 1, i - 1) \o SubSeq(s, i + 1, Len(s))

\* ----------------------------------------------------------------------
\* setupAutoWindowSize, index.ts:77-80: the assertion on initialWindowSize
\* ----------------------------------------------------------------------
\* Variant: setup goes on without the assertion.
SetupThrows_Never(o) == FALSE

SetupThrows(o) ==
    /\ o.initialWindowSize # undefined
    /\ ~(o.initialWindowSize >= o.minWindowSize)

\* ----------------------------------------------------------------------
\* The ping callback of setupAutoWindowSize, index.ts:89-94
\* ----------------------------------------------------------------------
\* Variant: the minimum is overwritten by the latest duration.
NextMinRTT_Latest(mRTT, duration) == duration

NextMinRTT(mRTT, duration) ==
    Min(IF mRTT = undefined THEN duration ELSE mRTT, duration)

\* ----------------------------------------------------------------------
\* The bandwidth interval callback, index.ts:100-140
\* ----------------------------------------------------------------------
\* Variant: the candidate is floored at the configured minWindowSize.
WindowSize_ConfiguredFloor(received, duration, mRTT, o) ==
    Max(CeilDiv(received * mRTT * o.windowSizeFactor, duration),
        o.minWindowSize)

\* index.ts:119-130: bandwidth, refWindowSize, windowSize
WindowSize(received, duration, mRTT, o) ==
    Max(CeilDiv(received * mRTT * o.windowSizeFactor, duration),
        MIN_WINDOW_SIZE_DEFAULT)

\* Variant: the tick goes on without an RTT sample.
RTTMissing_Ignored(mRTT, rRTT) == FALSE

\* index.ts:121: the tick returns when an RTT is missing
RTTMissing(mRTT, rRTT) == mRTT = undefined \/ rRTT = undefined

\* Variant: growth also waits for a degraded RTT.
ShouldSet_GrowGuarded(windowSize, effective, rRTT, mRTT, o) ==
    /\ windowSize # effective
    /\ rRTT > mRTT * o.windowSizeReducingRTTThresholdFactor

\* Variant: the shrink threshold is inclusive.
ShouldSet_ShrinkInclusive(windowSize, effective, rRTT, mRTT, o) ==
    \/ windowSize > effective
    \/ /\ windowSize < effective
       /\ rRTT >= mRTT * o.windowSizeReducingRTTThresholdFactor

\* Variant: the window only ever grows.
ShouldSet_NeverShrink(windowSize, effective, rRTT, mRTT, o) ==
    windowSize > effective

\* index.ts:132-136: the condition under which the window size is set
ShouldSet(windowSize, effective, rRTT, mRTT, o) ==
    \/ windowSize > effective
    \/ /\ windowSize < effective
       /\ rRTT > mRTT * o.windowSizeReducingRTTThresholdFactor

\* index.ts:109-139: the window size this tick sets, or undefined when the
\* tick returns early or leaves the window alone.
TickSets(duration, received, effective, rRTT, mRTT, o) ==
    IF duration <= 0 THEN undefined
    ELSE IF effective = undefined THEN undefined
    ELSE IF RTTMissing(mRTT, rRTT) THEN undefined
    ELSE IF ShouldSet(WindowSize(received, duration, mRTT, o),
                      effective, rRTT, mRTT, o)
         THEN WindowSize(received, duration, mRTT, o)
         ELSE undefined

\* Variant: the observer is told before the window size is set.
TickCalls_ObserverFirst(windowSize) ==
    IF windowSize = undefined THEN << >>
    ELSE << Call("onSetLocalWindowSize", windowSize),
            Call("setLocalWindowSize", windowSize) >>

\* index.ts:137-138
TickCalls(windowSize) ==
    IF windowSize = undefined THEN << >>
    ELSE << Call("setLocalWindowSize", windowSize),
            Call("onSetLocalWindowSize", windowSize) >>

\* Variant: the tick checks the duration before it reads and resets the
\* byte count.
Tick_KeepsBytes(now) ==
    /\ timer
    /\ LET duration == now - bandwidthCalculatedAt
           received == receivedSinceLastBandwidthCalculation
           windowSize == TickSets(duration, received,
                                  effectiveLocalWindowSize, recentRTT,
                                  minRTT, options)
       IN /\ receivedSinceLastBandwidthCalculation' =
                 IF duration <= 0 THEN received ELSE 0
          /\ delivered' = IF duration <= 0 THEN delivered ELSE << >>
          /\ bandwidthCalculatedAt' = now
          /\ effectiveLocalWindowSize' =
                 IF windowSize = undefined THEN effectiveLocalWindowSize
                 ELSE windowSize
          /\ calls' = TickCalls(windowSize)
          /\ lastOp' = TickOp(received, duration, effectiveLocalWindowSize)
    /\ UNCHANGED << options, destroyed, closed, recentRTT, minRTT, timer,
                    pingTimer, pingIntervals, inFlight, samples >>

Tick(now) ==
    /\ timer
    /\ LET duration == now - bandwidthCalculatedAt
           received == receivedSinceLastBandwidthCalculation
           windowSize == TickSets(duration, received,
                                  effectiveLocalWindowSize, recentRTT,
                                  minRTT, options)
       IN /\ receivedSinceLastBandwidthCalculation' = 0
          /\ bandwidthCalculatedAt' = now
          /\ effectiveLocalWindowSize' =
                 IF windowSize = undefined THEN effectiveLocalWindowSize
                 ELSE windowSize
          /\ calls' = TickCalls(windowSize)
          /\ lastOp' = TickOp(received, duration, effectiveLocalWindowSize)
    /\ delivered' = << >>
    /\ UNCHANGED << options, destroyed, closed, recentRTT, minRTT, timer,
                    pingTimer, pingIntervals, inFlight, samples >>

\* ----------------------------------------------------------------------
\* The wrapped stream.push, index.ts:143-153.  data is a Buffer of the
\* given length, or null (length = undefined).
\* ----------------------------------------------------------------------
\* Variant: the wrapper counts chunks, not bytes.
Pushed_Count(length) == 1

Pushed(length) == IF length = undefined THEN 0 ELSE length

StreamPush(length) ==
    /\ ~SetupThrows(options)
    /\ ~destroyed
    /\ receivedSinceLastBandwidthCalculation + Pushed(length) <= MaxReceived
    /\ receivedSinceLastBandwidthCalculation' =
           receivedSinceLastBandwidthCalculation + Pushed(length)
    /\ lastOp' = Op("push", length)
    /\ calls' = << Call("push", Pushed(length)) >>
    /\ delivered' =
           IF length = undefined THEN delivered ELSE Append(delivered, length)
    /\ UNCHANGED << options, effectiveLocalWindowSize, destroyed, closed,
                    recentRTT, minRTT, bandwidthCalculatedAt, timer,
                    pingTimer, pingIntervals, inFlight, samples >>

\* ----------------------------------------------------------------------
\* setupSessionPing, index.ts:157-191
\* ----------------------------------------------------------------------
\* update(), index.ts:170-174: the period of the interval it arms
UpdateInterval(duration, o) == duration * o.pingIntervalFactor

\* clearInterval(timer), index.ts:165, 171 and 178: clearing a handle that is
\* undefined or already cleared does nothing.
ClearInterval(armed, handle) == armed \ {handle}

\* Variant: update() arms the new interval without clearing the old one.
Update_NoClear(armed, handle, period) == armed \cup {period}

\* update(), index.ts:170-174: the intervals armed after it
Update(armed, handle, period) == ClearInterval(armed, handle) \cup {period}

\* Variant: ping() does not look at session.destroyed.
PingGivesUp_Never(isDestroyed) == FALSE

\* ping(), index.ts:177: whether ping() gives up instead of pinging
PingGivesUp(isDestroyed) == isDestroyed

\* A ping that is still out when the interval of period p fires has been out
\* for at least p.
Aged(flight, p) == [i \in 1..Len(flight) |-> Max(flight[i], p)]

\* The interval callback `() => ping()`, index.ts:173 and 176-190
PingTimerFire(period) ==
    /\ period \in pingIntervals
    /\ IF PingGivesUp(destroyed)
       THEN /\ pingTimer' = undefined
            /\ pingIntervals' = ClearInterval(pingIntervals, pingTimer)
            /\ calls' = << >>
            /\ UNCHANGED inFlight
       ELSE /\ Len(inFlight) < MaxInFlight
            /\ inFlight' = Append(Aged(inFlight, period), 0)
            /\ calls' = << Call("ping", 0) >>
            /\ UNCHANGED << pingTimer, pingIntervals >>
    /\ lastOp' = Op("pingTimer", 0)
    /\ UNCHANGED << options, effectiveLocalWindowSize, destroyed, closed,
                    recentRTT, minRTT, receivedSinceLastBandwidthCalculation,
                    bandwidthCalculatedAt, timer, samples, delivered >>

\* Variant: the completion callback pings again at once.
AfterCompletion_PingAgain(flight, i) == Append(Remove(flight, i), 0)

\* What the completion callback leaves outstanding, index.ts:182-189: the
\* callback issues no ping of its own.
AfterCompletion(flight, i) == Remove(flight, i)

\* The session.ping callback without error, index.ts:182-189 and 89-94
PingSuccess(i, duration) ==
    /\ i \in 1..Len(inFlight)
    /\ duration >= inFlight[i]
    /\ recentRTT' = duration
    /\ minRTT' = NextMinRTT(minRTT, duration)
    /\ pingTimer' = UpdateInterval(duration, options)
    /\ pingIntervals' =
           Update(pingIntervals, pingTimer, UpdateInterval(duration, options))
    /\ inFlight' = AfterCompletion(inFlight, i)
    /\ calls' = << Call("onPingCallback", duration) >>
    /\ lastOp' = Op("pingSuccess", duration)
    /\ samples' = samples \cup {duration}
    /\ UNCHANGED << options, effectiveLocalWindowSize, destroyed, closed,
                    receivedSinceLastBandwidthCalculation,
                    bandwidthCalculatedAt, timer, delivered >>

\* Variant: a failed ping stops the ping interval and forgets the RTTs.
PingError_Resets(i) ==
    /\ i \in 1..Len(inFlight)
    /\ inFlight' = Remove(inFlight, i)
    /\ pingTimer' = undefined
    /\ pingIntervals' = ClearInterval(pingIntervals, pingTimer)
    /\ recentRTT' = undefined
    /\ calls' = << >>
    /\ lastOp' = Op("pingError", 0)
    /\ UNCHANGED << options, effectiveLocalWindowSize, destroyed, closed,
                    minRTT, receivedSinceLastBandwidthCalculation,
                    bandwidthCalculatedAt, timer, samples, delivered >>

\* The session.ping callback with an error, index.ts:183-185
PingError(i) ==
    /\ i \in 1..Len(inFlight)
    /\ inFlight' = AfterCompletion(inFlight, i)
    /\ calls' = << >>
    /\ lastOp' = Op("pingError", 0)
    /\ UNCHANGED << options, effectiveLocalWindowSize, destroyed, closed,
                    recentRTT, minRTT, receivedSinceLastBandwidthCalculation,
                    bandwidthCalculatedAt, timer, pingTimer, pingIntervals,
                    samples, delivered >>

\* ----------------------------------------------------------------------
\* The session
\* ----------------------------------------------------------------------
\* The session is destroyed; its 'close' event follows later.
SessionDestroy ==
    /\ ~destroyed
    /\ destroyed' = TRUE
    /\ calls' = << >>
    /\ lastOp' = Op("destroy", 0)
    /\ UNCHANGED << options, effectiveLocalWindowSize, closed, recentRTT,
                    minRTT, receivedSinceLastBandwidthCalculation,
                    bandwidthCalculatedAt, timer, pingTimer, pingIntervals,
                    inFlight, samples, delivered >>

\* The 'close' listeners, index.ts:165 and index.ts:154
SessionClose ==
    /\ destroyed
    /\ ~closed
    /\ closed' = TRUE
    /\ IF SetupThrows(options)
       THEN UNCHANGED << timer, pingTimer, pingIntervals >>
       ELSE /\ pingTimer' = undefined
            /\ pingIntervals' = ClearInterval(pingIntervals, pingTimer)
            /\ timer' = FALSE
    /\ calls' = << >>
    /\ lastOp' = Op("close", 0)
    /\ UNCHANGED << options, effectiveLocalWindowSize, destroyed, recentRTT,
                    minRTT, receivedSinceLastBandwidthCalculation,
                    bandwidthCalculatedAt, inFlight, samples, delivered >>

\* session.state starts to report the flow-control window (index.ts:113).
SessionStateReady ==
    /\ ~destroyed
    /\ effectiveLocalWindowSize = undefined
    /\ effectiveLocalWindowSize' = SessionDefaultWindowSize
    /\ calls' = << >>
    /\ lastOp' = Op("state", 0)
    /\ UNCHANGED << options, destroyed, closed, recentRTT, minRTT,
                    receivedSinceLastBandwidthCalculation,
                    bandwidthCalculatedAt, timer, pingTimer, pingIntervals,
                    inFlight, samples, delivered >>

\* ----------------------------------------------------------------------
\* The state after setupAutoWindowSize(session, options), index.ts:63-155
\* ----------------------------------------------------------------------
SetupCalls(o) ==
    IF SetupThrows(o) THEN << >>
    ELSE (IF o.initialWindowSize = undefined THEN << >>
          ELSE << Call("setLocalWindowSize", o.initialWindowSize) >>)
         \o << Call("ping", 0) >>

Init ==
    /\ options \in Options
    /\ effectiveLocalWindowSize =
           IF SetupThrows(options) THEN undefined
           ELSE options.initialWindowSize
    /\ destroyed = FALSE
    /\ closed = FALSE
    /\ recentRTT = undefined
    /\ minRTT = undefined
    /\ receivedSinceLastBandwidthCalculation = 0
    /\ bandwidthCalculatedAt \in Times
    /\ timer = ~SetupThrows(options)
    /\ pingTimer =
           IF SetupThrows(options) THEN undefined
           ELSE UpdateInterval(options.initialPingDurationReference, options)
    /\ pingIntervals =
           IF SetupThrows(options) THEN {}
           ELSE Update({}, undefined,
                       UpdateInterval(options.initialPingDurationReference,
                                      options))
    /\ inFlight = IF SetupThrows(options) THEN << >> ELSE << 0 >>
    /\ lastOp = Op("setup", 0)
    /\ calls = SetupCalls(options)
    /\ samples = {}
    /\ delivered = << >>

Next ==
    \/ \E now \in Times : Tick(now)
    \/ \E length \in ChunkLengths \cup {undefined} : StreamPush(length)
    \/ \E period \in pingIntervals : PingTimerFire(period)
    \/ \E i \in 1..MaxInFlight, duration \in PingDurations :
           PingSuccess(i, duration)
    \/ \E i \in 1..MaxInFlight : PingError(i)
    \/ SessionDestroy
    \/ SessionClose
    \/ SessionStateReady

Spec == Init /\ [][Next]_vars

\* The event loop runs: an armed ping interval (setInterval, index.ts:173)
\* does not stay pending forever.
PingIntervalFires == \E period \in pingIntervals : PingTimerFire(period)

FairSpec == Spec /\ WF_vars(PingIntervalFires)

\* ----------------------------------------------------------------------
\* Vocabulary of the properties
\* ----------------------------------------------------------------------
\* The step is a run of the bandwidth interval callback.
TickStep == lastOp'.op = "tick"

\* The local `duration` of that run.
TickDuration == bandwidthCalculatedAt' - bandwidthCalculatedAt

\* The run reaches the decision of index.ts:132.
TickNotSkipped ==
    /\ TickStep
    /\ TickDuration > 0
    /\ effectiveLocalWindowSize # undefined
    /\ minRTT # undefined
    /\ recentRTT # undefined

\* The local `windowSize` of that run.
Candidate ==
    WindowSize(receivedSinceLastBandwidthCalculation, TickDuration, minRTT,
               options)

\* recentRTT > minRTT * windowSizeReducingRTTThresholdFactor
Degraded ==
    recentRTT > minRTT * options.windowSizeReducingRTTThresholdFactor

\* The step sets the local window size to w, and tells the observer.
Applies(w) ==
    /\ effectiveLocalWindowSize' = w
    /\ calls' = << Call("setLocalWindowSize", w),
                   Call("onSetLocalWindowSize", w) >>

\* The step sets no window size.
AppliesNothing ==
    /\ effectiveLocalWindowSize' = effectiveLocalWindowSize
    /\ calls' = << >>

\* The last handler was a tick that reached the decision of index.ts:132.
TickDecided ==
    /\ lastOp.op = "tick"
    /\ lastOp.duration > 0
    /\ lastOp.window # undefined
    /\ minRTT # undefined
    /\ recentRTT # undefined

\* The `windowSize` that tick computed.
TickCandidate == WindowSize(lastOp.input, lastOp.duration, minRTT, options)

\* ----------------------------------------------------------------------
\* C1. Floor invariant: every window size a tick applies through
\* setLocalWindowSize is >= the configured minWindowSize.
\* (Fails: index.ts:129 floors at MIN_WINDOW_SIZE_DEFAULT, not at
\* options.minWindowSize.)
\* ----------------------------------------------------------------------
FloorInvariant ==
    lastOp.op = "tick" =>
        \A i \in 1..Len(calls) :
            calls[i].fn = "setLocalWindowSize" =>
                calls[i].arg >= options.minWindowSize

\* ----------------------------------------------------------------------
\* C2. Growth eagerness: on a tick that is not skipped, a candidate greater
\* than the effective local window is applied exactly, whatever recentRTT is
\* relative to minRTT.
\* ----------------------------------------------------------------------
GrowthEagerness ==
    [][ (TickNotSkipped /\ Candidate > effectiveLocalWindowSize)
            => Applies(Candidate) ]_vars

\* A tick grew the window although the latency was not degraded.
GrowthWitness ==
    /\ TickDecided
    /\ TickCandidate > lastOp.window
    /\ lastOp.window >= MIN_WINDOW_SIZE_DEFAULT
    /\ ~Degraded
    /\ effectiveLocalWindowSize = TickCandidate

\* ----------------------------------------------------------------------
\* C3. Shrink conservatism: on a tick, a candidate below the effective
\* window with recentRTT <= minRTT * threshold factor, or a candidate equal
\* to the effective window, sets nothing and leaves the window unchanged.
\* ----------------------------------------------------------------------
ShrinkConservatism ==
    [][ ( /\ TickNotSkipped
          /\ \/ Candidate < effectiveLocalWindowSize /\ ~Degraded
             \/ Candidate = effectiveLocalWindowSize )
            => AppliesNothing ]_vars

\* A tick computed a smaller candidate with recentRTT exactly at the
\* threshold, and left the window alone.
ShrinkConservatismWitness ==
    /\ TickDecided
    /\ TickCandidate < lastOp.window
    /\ recentRTT = minRTT * options.windowSizeReducingRTTThresholdFactor
    /\ effectiveLocalWindowSize = lastOp.window
    /\ calls = << >>

\* ----------------------------------------------------------------------
\* C4. Shrink on degraded latency: on a tick that is not skipped, a
\* candidate below the effective window with recentRTT > minRTT * threshold
\* factor is applied exactly.
\* ----------------------------------------------------------------------
ShrinkOnDegradedLatency ==
    [][ (TickNotSkipped /\ Candidate < effectiveLocalWindowSize /\ Degraded)
            => Applies(Candidate) ]_vars

\* A tick shrank a window that was above the floor to a candidate above the
\* floor.
ShrinkWitness ==
    /\ TickDecided
    /\ Degraded
    /\ TickCandidate < lastOp.window
    /\ TickCandidate > MIN_WINDOW_SIZE_DEFAULT
    /\ effectiveLocalWindowSize = TickCandidate

\* ----------------------------------------------------------------------
\* C5. Skip on insufficient data: no tick that runs before the first
\* successful ping completion sets the window size or calls the observer,
\* however many bytes were received and however many pings failed.
\* ----------------------------------------------------------------------
SkipOnInsufficientData ==
    [][ (TickStep /\ samples = {}) => AppliesNothing ]_vars

\* A tick ran with bytes received, a positive duration and a window to
\* compare with, after a ping had failed and before any ping succeeded.
SkipWitness ==
    /\ lastOp.op = "tick"
    /\ samples = {}
    /\ inFlight = << >>
    /\ lastOp.input > 0
    /\ lastOp.duration > 0
    /\ lastOp.window # undefined
    /\ calls = << >>

\* ----------------------------------------------------------------------
\* C6. Monotonic minRTT: minRTT is the minimum of the durations of all
\* successful ping completions so far (unset if there are none), recentRTT
\* is the duration of the latest one, and minRTT never increases once set,
\* so minRTT <= recentRTT.
\* ----------------------------------------------------------------------
MonotonicMinRTT ==
    /\ [](IF samples = {}
          THEN minRTT = undefined /\ recentRTT = undefined
          ELSE /\ minRTT = SetMin(samples)
               /\ recentRTT \in samples
               /\ minRTT <= recentRTT)
    /\ [][ /\ lastOp'.op = "pingSuccess" => recentRTT' = lastOp'.input
           /\ lastOp'.op # "pingSuccess" => recentRTT' = recentRTT
           /\ minRTT # undefined =>
                  minRTT' # undefined /\ minRTT' <= minRTT ]_vars

\* A slower ping completed after a faster one.
MinRTTWitness ==
    /\ lastOp.op = "pingSuccess"
    /\ Cardinality(samples) >= 2
    /\ minRTT < recentRTT
    /\ recentRTT = lastOp.input

\* ----------------------------------------------------------------------
\* C7. Probe failure is absorbed: a ping completion with an error leaves
\* recentRTT, minRTT and the ping interval unchanged and does not call
\* onPingCallback; a tick right after it decides on the RTTs from before
\* the failure and is not skipped because of it.
\* ----------------------------------------------------------------------
ProbeFailureAbsorbed ==
    [][ /\ lastOp'.op = "pingError" =>
              /\ UNCHANGED << recentRTT, minRTT, pingTimer, samples >>
              /\ calls' = << >>
        /\ (lastOp.op = "pingError" /\ TickNotSkipped) =>
              /\ Candidate > effectiveLocalWindowSize => Applies(Candidate)
              /\ (Candidate < effectiveLocalWindowSize /\ Degraded)
                     => Applies(Candidate) ]_vars

\* A ping failed after another had succeeded, with the ping interval armed.
ProbeFailureWitness ==
    /\ lastOp.op = "pingError"
    /\ minRTT # undefined
    /\ recentRTT # undefined
    /\ pingTimer # undefined
    /\ ~destroyed

\* ----------------------------------------------------------------------
\* C8. No side effects after close: once the 'close' event has been handled
\* (the session reporting destroyed), no handler calls
\* session.setLocalWindowSize or session.ping.
\* ----------------------------------------------------------------------
NoSideEffectsAfterClose ==
    (closed /\ destroyed) =>
        "setLocalWindowSize" \notin Fns(calls) /\ "ping" \notin Fns(calls)

\* The ping interval fired after close and pinged nothing.
AfterCloseWitness ==
    /\ closed
    /\ destroyed
    /\ lastOp.op = "pingTimer"
    /\ calls = << >>

\* ----------------------------------------------------------------------
\* C9. In-flight ping completion after close is a no-op: a ping issued
\* before close that completes successfully after it does not update
\* recentRTT or minRTT, does not call onPingCallback and arms no ping
\* interval; after close no measurement or scheduler state changes and no
\* timer is pending.
\* (Fails: the callback of index.ts:182-189 does not look at the session.)
\* ----------------------------------------------------------------------
CompletionAfterCloseIsNoOp ==
    [][ closed =>
          /\ UNCHANGED << recentRTT, minRTT, pingTimer, timer >>
          /\ "onPingCallback" \notin Fns(calls')
          /\ pingTimer' = undefined
          /\ ~timer' ]_vars

\* ----------------------------------------------------------------------
\* C10. No concurrent probes: at most one ping is in flight in every
\* reachable state.
\* (Fails: the interval of index.ts:173 pings at every firing.)
\* ----------------------------------------------------------------------
NoConcurrentProbes == Len(inFlight) <= 1

\* C10, amended.  A ping is issued only by a firing of the ping interval,
\* one per firing and never by a completion callback; so while several pings
\* are in flight, each but the newest has been out for at least a full
\* period of the ping interval.
ProbesOverlapOnlyWhenOverdue ==
    /\ [](\A i \in 1..(Len(inFlight) - 1) : inFlight[i] > 0)
    /\ [][ Len(inFlight') > Len(inFlight) =>
              /\ lastOp'.op = "pingTimer"
              /\ pingTimer # undefined
              /\ ~destroyed
              /\ Len(inFlight') = Len(inFlight) + 1
              /\ calls' = << Call("ping", 0) >> ]_vars

\* Two pings are in flight after the older one outlasted the ping interval,
\* and an earlier ping had set that interval.
OverlapWitness ==
    /\ Len(inFlight) = 2
    /\ samples # {}
    /\ inFlight[1] = pingTimer
    /\ lastOp.op = "pingTimer"

\* options.initialWindowSize is given and below options.minWindowSize.
BadInitialWindowSize ==
    /\ options.initialWindowSize # undefined
    /\ options.initialWindowSize < options.minWindowSize

\* ----------------------------------------------------------------------
\* C11. Configuration error fails fast: with an initialWindowSize below
\* minWindowSize, setupAutoWindowSize throws before any effect: it sets no
\* window size, issues no ping, arms no ping or bandwidth interval and
\* registers no stream or close listener, so nothing of the controller ever
\* runs.  With an initialWindowSize >= minWindowSize setup applies it as the
\* local window size and goes on.
\* ----------------------------------------------------------------------
ConfigurationErrorFailsFast ==
    /\ BadInitialWindowSize =>
          /\ calls = << >>
          /\ ~timer
          /\ pingTimer = undefined
          /\ pingIntervals = {}
          /\ inFlight = << >>
          /\ receivedSinceLastBandwidthCalculation = 0
          /\ recentRTT = undefined
          /\ lastOp.op \in {"setup", "state", "destroy", "close"}
    /\ ( /\ lastOp.op = "setup"
         /\ options.initialWindowSize # undefined
         /\ ~BadInitialWindowSize ) =>
          /\ effectiveLocalWindowSize = options.initialWindowSize
          /\ calls = << Call("setLocalWindowSize", options.initialWindowSize),
                        Call("ping", 0) >>
          /\ timer
          /\ pingIntervals # {}

\* Setup threw, and the session later closed with nothing of the controller
\* having run.
ConfigurationErrorWitness ==
    /\ BadInitialWindowSize
    /\ closed
    /\ lastOp.op = "close"

\* Math.ceil(Math.max(received / duration * minRTT * windowSizeFactor,
\* minWindowSize)) for the configured minWindowSize and windowSizeFactor.
ConfiguredCandidate(received, duration, mRTT, o) ==
    IF received * mRTT * o.windowSizeFactor >= o.minWindowSize * duration
    THEN CeilDiv(received * mRTT * o.windowSizeFactor, duration)
    ELSE o.minWindowSize

\* ----------------------------------------------------------------------
\* C12. Candidate formula: on every tick that is not skipped the candidate
\* window size is ceil(max(received / duration * minRTT * windowSizeFactor,
\* minWindowSize)) for the configured minWindowSize and windowSizeFactor,
\* computed from minRTT and never from recentRTT; so a window size the tick
\* sets is that value.
\* (Fails: index.ts:129 takes the maximum with MIN_WINDOW_SIZE_DEFAULT.)
\* ----------------------------------------------------------------------
CandidateFormula ==
    [][ (TickNotSkipped /\ calls' # << >>) =>
            calls'[1].arg =
                ConfiguredCandidate(receivedSinceLastBandwidthCalculation,
                                    TickDuration, minRTT, options) ]_vars

\* The sum of the lengths in a sequence of chunk lengths.
RECURSIVE SeqSum(_)
SeqSum(s) == IF s = << >> THEN 0 ELSE s[1] + SeqSum(Tail(s))

\* ----------------------------------------------------------------------
\* C13. Throughput accounting: the byte count a tick reads is the sum of the
\* lengths of all non-null chunks pushed since the previous tick's read (a
\* null chunk adds 0), and the accumulator is 0 right after the read; so a
\* tick right after a tick reads 0.
\* ----------------------------------------------------------------------
ThroughputAccounting ==
    /\ [](receivedSinceLastBandwidthCalculation = SeqSum(delivered))
    /\ [][ /\ TickStep =>
                /\ lastOp'.input = SeqSum(delivered)
                /\ receivedSinceLastBandwidthCalculation' = 0
           /\ (lastOp.op = "tick" /\ TickStep) => lastOp'.input = 0
           /\ (lastOp'.op = "push" /\ lastOp'.input = undefined) =>
                UNCHANGED receivedSinceLastBandwidthCalculation ]_vars

\* A tick read the bytes of two chunks and left the accumulator at 0.
ThroughputWitness ==
    /\ lastOp.op = "tick"
    /\ lastOp.input = 1000000
    /\ receivedSinceLastBandwidthCalculation = 0
    /\ delivered = << >>

\* The duration the ping interval is derived from: that of the latest
\* successful ping, or initialPingDurationReference before the first.
ReferenceDuration ==
    IF samples = {} THEN options.initialPingDurationReference ELSE recentRTT

\* ----------------------------------------------------------------------
\* C14. Probe schedule derivation: before close at most one ping interval is
\* armed, and its period is pingIntervalFactor * d, d being the duration of
\* the latest successful ping, or initialPingDurationReference if none has
\* succeeded; each successful completion clears the interval armed before
\* it arms the new one.
\* ----------------------------------------------------------------------
ProbeScheduleDerivation ==
    /\ [](~closed =>
            /\ Cardinality(pingIntervals) <= 1
            /\ pingIntervals \subseteq
                   {options.pingIntervalFactor * ReferenceDuration}
            /\ (~destroyed /\ ~BadInitialWindowSize) => pingIntervals # {})
    /\ [][ lastOp'.op = "pingSuccess" =>
              pingIntervals' =
                  {options.pingIntervalFactor * lastOp'.input} ]_vars

\* A ping completed and replaced an armed interval of another period, the
\* latest duration not being the minimum.
ProbeScheduleWitness ==
    /\ ~closed
    /\ ~destroyed
    /\ lastOp.op = "pingSuccess"
    /\ Cardinality(samples) >= 2
    /\ minRTT < recentRTT
    /\ pingIntervals = {options.pingIntervalFactor * recentRTT}
    /\ options.pingIntervalFactor = PING_INTERVAL_FACTOR_DEFAULT

\* Everything a tick may change besides the timestamp, the byte count and
\* the window size stays as it is.
TickFrame ==
    UNCHANGED << options, destroyed, closed, recentRTT, minRTT, timer,
                 pingTimer, pingIntervals, inFlight, samples >>

\* ----------------------------------------------------------------------
\* C15. Non-positive duration skips the tick entirely: on a tick with
\* now - bandwidthCalculatedAt <= 0 the only state change is
\* bandwidthCalculatedAt = now; the byte count is neither read nor reset and
\* stays for the next tick, and no window size is set.
\* (Fails: index.ts:104-107 reads and resets the byte count before the
\* duration is checked at index.ts:109.)
\* ----------------------------------------------------------------------
NonPositiveDurationKeepsBytes ==
    [][ (TickStep /\ TickDuration <= 0) =>
            /\ UNCHANGED receivedSinceLastBandwidthCalculation
            /\ AppliesNothing
            /\ TickFrame ]_vars

\* C15, amended.  On a tick with now - bandwidthCalculatedAt <= 0 the state
\* changes are bandwidthCalculatedAt = now and the byte count, which is read
\* and reset to 0: the bytes counted so far are dropped, not kept for the
\* next tick.  No window size is set and nothing else changes.
NonPositiveDurationDropsBytes ==
    [][ (TickStep /\ TickDuration <= 0) =>
            /\ lastOp'.input = receivedSinceLastBandwidthCalculation
            /\ receivedSinceLastBandwidthCalculation' = 0
            /\ lastOp'.duration = TickDuration
            /\ AppliesNothing
            /\ TickFrame ]_vars

\* A tick with a non-positive duration dropped the bytes received, with the
\* RTTs and the window known.
NonPositiveDurationWitness ==
    /\ lastOp.op = "tick"
    /\ lastOp.duration <= 0
    /\ lastOp.input > 0
    /\ lastOp.window # undefined
    /\ minRTT # undefined
    /\ receivedSinceLastBandwidthCalculation = 0
    /\ calls = << >>

\* The last handler was the ping interval callback, and it pinged.
PingIssued ==
    /\ lastOp.op = "pingTimer"
    /\ calls = << Call("ping", 0) >>

\* ----------------------------------------------------------------------
\* C16. Probing continues after failure: while the session is not
\* destroyed, after any ping completion with an error (the very first ping
\* and consecutive failures included) the still armed ping interval
\* eventually issues another ping, the interval firing fairly.
\* ----------------------------------------------------------------------
ProbingContinuesAfterFailure ==
    [](( /\ lastOp.op = "pingError"
         /\ ~destroyed ) => <>(destroyed \/ PingIssued))

\* The ping interval pinged again after the first ping had failed and no
\* ping had ever succeeded.
ProbingContinuesWitness ==
    /\ PingIssued
    /\ samples = {}
    /\ inFlight = << 0 >>
    /\ ~destroyed

\* ----------------------------------------------------------------------
\* C17. Observer consistency: onSetLocalWindowSize is called exactly once
\* for each window size a tick sets, in that tick, after the
\* setLocalWindowSize call and with the same value; it is never called on a
\* tick that sets nothing, nor by any other handler.
\* ----------------------------------------------------------------------
ObserverConsistency ==
    /\ lastOp.op = "tick" =>
          \/ /\ calls = << >>
             /\ effectiveLocalWindowSize = lastOp.window
          \/ /\ Len(calls) = 2
             /\ calls[1].fn = "setLocalWindowSize"
             /\ calls[2].fn = "onSetLocalWindowSize"
             /\ calls[2].arg = calls[1].arg
             /\ calls[1].arg = effectiveLocalWindowSize
             /\ effectiveLocalWindowSize # lastOp.window
    /\ lastOp.op # "tick" => "onSetLocalWindowSize" \notin Fns(calls)

\* A tick shrank the window and told the observer the new size.
ObserverWitness ==
    /\ lastOp.op = "tick"
    /\ Len(calls) = 2
    /\ calls[2] = Call("onSetLocalWindowSize", effectiveLocalWindowSize)
    /\ effectiveLocalWindowSize < lastOp.window

\* The window size a tick from this state would set (undefined for none) if
\* the controller had been set up with minWindowSize m and otherwise the same
\* options.
TickSetsUnder(m) ==
    TickSets(TickDuration, receivedSinceLastBandwidthCalculation,
             effectiveLocalWindowSize, recentRTT, minRTT,
             [options EXCEPT !.minWindowSize = m])

Quiescent ==
    /\ pingIntervals = {}
    /\ pingTimer = undefined
    /\ ~timer

\* ----------------------------------------------------------------------
\* C19. Eventual quiescence after close: once the session has closed,
\* eventually no ping interval and no bandwidth interval is armed and none
\* is armed again, also when a ping in flight at close completes afterwards
\* and arms the ping interval once more; every ping callback fires at most
\* once and the ping interval fires fairly.
\* ----------------------------------------------------------------------
EventualQuiescence == [](closed => <>[]Quiescent)

\* After close a late completion had armed the ping interval again; it fired
\* once, cleared itself, and no ping is outstanding any more.
QuiescenceWitness ==
    /\ closed
    /\ samples # {}
    /\ lastOp.op = "pingTimer"
    /\ inFlight = << >>
    /\ Quiescent

==========================================================================
